---- MODULE Spec2Model ----
(***************************************************************************)
(* Model of the skill discovery and registry code of                       *)
(* packages/agent-skills-mcp-py/main.py.                                   *)
(*                                                                         *)
(* Strings are sequences of one-character strings, so that split, strip,   *)
(* startswith, join and replace are computed as Python computes them.      *)
(* An Optional value is a sequence of length 0 (None) or 1 (the value).    *)
(***************************************************************************)
EXTENDS Integers, Sequences, FiniteSets, TLC

VARIABLES
    environ,     \* os.environ: GLOBAL_SKILLS_PATH and PROJECT_SKILLS_PATH, each Optional
    disk,        \* the filesystem: SKILL.md files in directory-walk order, roots whose walk fails
    cache,       \* _skills_cache: None or the list of Skill
    result,      \* what the last call of an exposed operation returned or raised
    warnings,    \* the duplicate-tool-name warnings printed by the last discovery run
    inits,       \* how many times initialize_skills has completed
    paths,       \* parse_skills_paths / initialize_skills: the resolved root lists
    chains,      \* generate_tool_name: the two relative directory chains handed to it
    tool_names   \* generate_tool_name: the two identifiers it returned

vars == <<environ, disk, cache, result, warnings, inits, paths, chains, tool_names>>

-----------------------------------------------------------------------------
(* Bounds of the model *)

MaxEnvLen == 3      \* length of a configuration string
MaxChain == 2       \* directory components between a root and a manifest
MaxFiles == 2       \* SKILL.md files on the disk
MaxInits == 2       \* calls of initialize_skills in one process
MaxLines == 2       \* lines of a manifest's front-matter

-----------------------------------------------------------------------------
(* Optional values and Python string primitives *)

None == <<>>

Some(v) == <<v>>

Whitespace == {" ", "\n", "\t"}

RECURSIVE LStrip(_)
LStrip(s) == IF s # <<>> /\ Head(s) \in Whitespace THEN LStrip(Tail(s)) ELSE s

RECURSIVE RStrip(_)
RStrip(s) ==
    IF s # <<>> /\ s[Len(s)] \in Whitespace THEN RStrip(SubSeq(s, 1, Len(s) - 1)) ELSE s

\* str.strip()
Strip(s) == RStrip(LStrip(s))

\* str.startswith(prefix)
StartsWith(s, prefix) ==
    /\ Len(prefix) <= Len(s)
    /\ SubSeq(s, 1, Len(prefix)) = prefix

\* str.find(c) + 1 for a one-character c: the first index of c in s, 0 when absent
Find(s, c) ==
    IF \E i \in 1..Len(s) : s[i] = c
    THEN CHOOSE i \in 1..Len(s) : s[i] = c /\ \A j \in 1..(i - 1) : s[j] # c
    ELSE 0

\* str.rfind(c) + 1
RFind(s, c) ==
    IF \E i \in 1..Len(s) : s[i] = c
    THEN CHOOSE i \in 1..Len(s) : s[i] = c /\ \A j \in (i + 1)..Len(s) : s[j] # c
    ELSE 0

\* str.split(c) for a one-character separator: always at least one piece
RECURSIVE Split(_, _)
Split(s, c) ==
    LET i == Find(s, c)
    IN  IF i = 0 THEN <<s>>
        ELSE <<SubSeq(s, 1, i - 1)>> \o Split(SubSeq(s, i + 1, Len(s)), c)

\* sep.join(pieces)
RECURSIVE JoinWith(_, _)
JoinWith(pieces, sep) ==
    IF pieces = <<>> THEN <<>>
    ELSE IF Len(pieces) = 1 THEN pieces[1]
    ELSE pieces[1] \o sep \o JoinWith(Tail(pieces), sep)

\* str.replace(from, to) for one-character strings
Replace(s, from, to) == [i \in 1..Len(s) |-> IF s[i] = from THEN to ELSE s[i]]

\* str.replace(c, "")
Remove(s, c) == SelectSeq(s, LAMBDA x : x # c)

\* str.rstrip("/")
RECURSIVE RStripSep(_)
RStripSep(s) ==
    IF s # <<>> /\ s[Len(s)] = "/" THEN RStripSep(SubSeq(s, 1, Len(s) - 1)) ELSE s

-----------------------------------------------------------------------------
(* os.path, as posixpath computes it *)

HomeDir == <<"/", "h">>          \* $HOME of the process

WorkDir == <<"/", "w">>          \* os.getcwd()

\* os.path.isabs
isabs(p) == p # <<>> /\ p[1] = "/"

\* os.path.join(a, b)
join(a, b) ==
    IF isabs(b) THEN b
    ELSE IF a = <<>> \/ a[Len(a)] = "/" THEN a \o b
    ELSE a \o <<"/">> \o b

\* os.path.expanduser: "~" and "~/..." take $HOME; "~name" is a user the
\* password database does not know, which leaves the path unchanged
expanduser(p) ==
    IF ~StartsWith(p, <<"~">>) THEN p
    ELSE LET f == Find(Tail(p), "/")
             i == IF f = 0 THEN Len(p) ELSE f
         IN  IF i # 1 THEN p
             ELSE LET rest == SubSeq(p, 2, Len(p))
                      out == RStripSep(HomeDir) \o rest
                  IN  IF out = <<>> THEN <<"/">> ELSE out

\* os.path.dirname
dirname(p) ==
    LET i == RFind(p, "/")
        head == SubSeq(p, 1, i)
    IN  IF head # <<>> /\ \E k \in 1..Len(head) : head[k] # "/"
        THEN RStripSep(head) ELSE head

\* os.path.basename
basename(p) == SubSeq(p, RFind(p, "/") + 1, Len(p))

\* the component list of os.path.normpath(os.path.abspath(p))
RECURSIVE Collapse(_, _)
Collapse(comps, acc) ==
    IF comps = <<>> THEN acc
    ELSE LET c == Head(comps)
         IN  IF c = <<>> \/ c = <<".">> THEN Collapse(Tail(comps), acc)
             ELSE IF c = <<".", ".">>
                  THEN Collapse(Tail(comps),
                                IF acc = <<>> THEN acc ELSE SubSeq(acc, 1, Len(acc) - 1))
                  ELSE Collapse(Tail(comps), Append(acc, c))

Components(p) == Collapse(Split(join(WorkDir, p), "/"), <<>>)

\* the length of the longest common prefix of two component lists
RECURSIVE CommonLen(_, _)
CommonLen(a, b) ==
    IF a # <<>> /\ b # <<>> /\ Head(a) = Head(b)
    THEN 1 + CommonLen(Tail(a), Tail(b)) ELSE 0

\* os.path.relpath(path, start)
relpath(path, start) ==
    LET s == Components(start)
        p == Components(path)
        i == CommonLen(s, p)
        rel == [k \in 1..(Len(s) - i) |-> <<".", ".">>] \o SubSeq(p, i + 1, Len(p))
    IN  IF rel = <<>> THEN <<".">> ELSE JoinWith(rel, <<"/">>)

-----------------------------------------------------------------------------
(* Path Resolver *)

DefaultGlobal == <<"~", "/", ".", "s", "k", "i", "l", "l", "s", "/">>

DefaultProject == <<".", "s", "k", "i", "l", "l", "s", "/">>

\* a faulty variant: the default is not handed to os.getenv
GetenvDropsDefault(value, default) == IF value = None THEN <<>> ELSE value[1]

\* os.getenv(name, default) on an Optional value of the environment
getenv(value, default) == IF value = None THEN default ELSE value[1]

\* a faulty variant: a relative entry is not joined to the working directory
ResolveEntryRelative(entry) == expanduser(Strip(entry))

\* one entry of the comma-separated list: strip, expanduser, make absolute
ResolveEntry(entry) ==
    LET expanded_path == expanduser(Strip(entry))
    IN  IF ~isabs(expanded_path) THEN join(WorkDir, expanded_path) ELSE expanded_path

RECURSIVE ResolveAll(_)
ResolveAll(entries) ==
    IF entries = <<>> THEN <<>>
    ELSE IF Strip(Head(entries)) # <<>>
         THEN <<ResolveEntry(Head(entries))>> \o ResolveAll(Tail(entries))
         ELSE ResolveAll(Tail(entries))

\* parse_skills_paths(env_var, default_path), env_value being os.environ.get(env_var)
parse_skills_paths(env_value, default_path) ==
    LET paths_str == getenv(env_value, default_path)
    IN  IF paths_str = <<>> THEN <<>>
        ELSE ResolveAll(Split(paths_str, ","))

\* the first lines of initialize_skills: both lists, and their concatenation
resolve_roots(env) ==
    LET global_paths == parse_skills_paths(env.GLOBAL_SKILLS_PATH, DefaultGlobal)
        project_paths == parse_skills_paths(env.PROJECT_SKILLS_PATH, DefaultProject)
    IN  [global_paths |-> global_paths,
         project_paths |-> project_paths,
         all_paths |-> global_paths \o project_paths]

-----------------------------------------------------------------------------
(* Identifier Generator *)

SkillsPrefix == <<"s", "k", "i", "l", "l", "s", "_">>

ManifestName == <<"S", "K", "I", "L", "L", ".", "m", "d">>

\* a faulty variant: the identifier is derived from the leaf directory alone
generate_tool_name_leaf(skill_path, base_dir) ==
    SkillsPrefix \o Replace(basename(dirname(skill_path)), "-", "_")

\* generate_tool_name(skill_path, base_dir)
generate_tool_name(skill_path, base_dir) ==
    LET rel_path == relpath(skill_path, base_dir)
        dir_path == dirname(rel_path)
        components == SelectSeq(Split(dir_path, "/"), LAMBDA comp : comp # <<".">>)
    IN  SkillsPrefix \o Replace(JoinWith(components, <<"_">>), "-", "_")

-----------------------------------------------------------------------------
(* Manifest text.  A SKILL.md is a sequence of tokens: the "---" delimiter, *)
(* a whitespace line, a YAML line "key: value", a line of prose, or a line  *)
(* YAML cannot scan.                                                        *)

Delim == [t |-> "---", key |-> "", value |-> <<>>]

Blank == [t |-> "\n", key |-> "", value |-> <<>>]

Prose == [t |-> "prose", key |-> "", value |-> <<>>]

Unscannable == [t |-> "unscannable", key |-> "", value |-> <<>>]

Line(key, value) == [t |-> "line", key |-> key, value |-> value]

\* content.startswith("---")
StartsWithDelim(content) == content # <<>> /\ content[1] = Delim

FindDelim(content) ==
    IF \E i \in 1..Len(content) : content[i] = Delim
    THEN CHOOSE i \in 1..Len(content) :
            content[i] = Delim /\ \A j \in 1..(i - 1) : content[j] # Delim
    ELSE 0

\* content.split("---", maxsplit)
RECURSIVE SplitDelim(_, _)
SplitDelim(content, maxsplit) ==
    LET i == FindDelim(content)
    IN  IF i = 0 \/ maxsplit = 0 THEN <<content>>
        ELSE <<SubSeq(content, 1, i - 1)>>
                \o SplitDelim(SubSeq(content, i + 1, Len(content)), maxsplit - 1)

RECURSIVE LStripBlank(_)
LStripBlank(c) == IF c # <<>> /\ Head(c) = Blank THEN LStripBlank(Tail(c)) ELSE c

RECURSIVE RStripBlank(_)
RStripBlank(c) ==
    IF c # <<>> /\ c[Len(c)] = Blank THEN RStripBlank(SubSeq(c, 1, Len(c) - 1)) ELSE c

\* str.strip() of a piece of manifest text
StripText(c) == RStripBlank(LStripBlank(c))

\* yaml.safe_load: a mapping (its lines), a value that is no mapping (None for
\* an empty document, a string for prose), or a yaml.YAMLError
safe_load(frontmatter_str) ==
    LET lines == SelectSeq(frontmatter_str, LAMBDA tok : tok # Blank)
    IN  IF lines = <<>> THEN [kind |-> "none", lines |-> <<>>]
        ELSE IF \A i \in 1..Len(lines) : lines[i].t = "line"
             THEN [kind |-> "mapping", lines |-> lines]
        ELSE IF \A i \in 1..Len(lines) : lines[i].t = "prose"
             THEN [kind |-> "scalar", lines |-> <<>>]
        ELSE [kind |-> "YAMLError", lines |-> <<>>]

HasKey(lines, key) == \E i \in 1..Len(lines) : lines[i].key = key

\* a repeated key keeps its last value
Lookup(lines, key) ==
    lines[CHOOSE i \in 1..Len(lines) :
            lines[i].key = key /\ \A j \in (i + 1)..Len(lines) : lines[j].key # key].value

Lower == {"a", "b", "c", "d", "e", "f", "g", "h", "i", "j", "k", "l", "m",
          "n", "o", "p", "q", "r", "s", "t", "u", "v", "w", "x", "y", "z"}

Upper == {"A", "B", "C", "D", "E", "F", "G", "H", "I", "J", "K", "L", "M",
          "N", "O", "P", "Q", "R", "S", "T", "U", "V", "W", "X", "Y", "Z"}

Digit == {"0", "1", "2", "3", "4", "5", "6", "7", "8", "9"}

\* str.isalnum()
isalnum(s) == s # <<>> /\ \A i \in 1..Len(s) : s[i] \in Lower \cup Upper \cup Digit

\* str.islower()
islower(s) ==
    /\ \E i \in 1..Len(s) : s[i] \in Lower
    /\ \A i \in 1..Len(s) : s[i] \notin Upper

\* SkillFrontmatter.validate_name: TRUE when it raises
validate_name_raises(v) == v = <<>> \/ ~isalnum(Remove(v, "-")) \/ ~islower(v)

MinDescription == 10

\* a faulty variant: a description of exactly the minimum length is refused
validate_description_refuses_minimum(v) == Len(v) <= MinDescription

\* SkillFrontmatter.validate_description: TRUE when it raises
validate_description_raises(v) == Len(v) < MinDescription

\* SkillFrontmatter(**frontmatter_data) on a mapping: TRUE when pydantic raises
\* its ValidationError (a ValueError): a required field missing, a validator
\* raising, or a field of the wrong type.  The value of a line is a YAML string,
\* which license takes, and which is no List[str] and no Dict[str, str].
SkillFrontmatter_raises(lines) ==
    \/ ~HasKey(lines, "name")
    \/ ~HasKey(lines, "description")
    \/ HasKey(lines, "allowed_tools")
    \/ HasKey(lines, "metadata")
    \/ validate_name_raises(Lookup(lines, "name"))
    \/ validate_description_raises(Lookup(lines, "description"))

-----------------------------------------------------------------------------
(* The filesystem *)

\* is a a prefix of b
IsPrefix(a, b) == Len(a) <= Len(b) /\ SubSeq(b, 1, Len(a)) = a

\* os.path.exists(base_path): a directory exists when a manifest lies in or below it
exists(d, base_path) ==
    \E i \in 1..Len(d.files) : IsPrefix(Components(base_path), d.files[i].dir)

\* whether "**" descends to a file: it skips directories whose name starts with "."
Visible(rel) == \A i \in 1..Len(rel) : rel[i][1] # "."

\* the path glob returns for a file rel below base_path
GlobPath(base_path, rel) ==
    LET stripped == RStripSep(base_path)
        head == IF stripped = <<>> THEN base_path ELSE stripped
    IN  join(IF rel = <<>> THEN head ELSE join(head, JoinWith(rel, <<"/">>)), ManifestName)

\* glob.glob(os.path.join(base_path, "**/SKILL.md"), recursive=True), in walk order
RECURSIVE GlobFiles(_, _)
GlobFiles(files, base_path) ==
    IF files = <<>> THEN <<>>
    ELSE LET root == Components(base_path)
             f == Head(files)
             rel == SubSeq(f.dir, Len(root) + 1, Len(f.dir))
         IN  IF IsPrefix(root, f.dir) /\ Visible(rel)
             THEN <<GlobPath(base_path, rel)>> \o GlobFiles(Tail(files), base_path)
             ELSE GlobFiles(Tail(files), base_path)

glob(d, base_path) == GlobFiles(d.files, base_path)

\* whether the walk of base_path raises (permission denied, I/O error)
scan_raises(d, base_path) == Components(base_path) \in d.broken

\* open(skill_path).read(): None when the read raises
read(d, skill_path) ==
    LET here == Components(dirname(skill_path))
        hit == {i \in 1..Len(d.files) : d.files[i].dir = here}
    IN  IF hit = {} THEN None
        ELSE LET f == d.files[CHOOSE i \in hit : TRUE]
             IN  IF f.readable THEN Some(f.text) ELSE None

-----------------------------------------------------------------------------
(* Manifest Parser *)

Rejected(why) == [skill |-> None, printed |-> why]

\* parse_skill, with the diagnostic it prints.  A Skill keeps the fields the
\* registry reads; license, allowed_tools and metadata are copied through from
\* the front-matter and read by nothing.
parse_outcome(d, skill_path, base_dir, cwd) ==
    LET file == read(d, skill_path)
    IN  IF file = None THEN Rejected("Error parsing skill")
        ELSE LET content == file[1]
             IN  IF ~StartsWithDelim(content) THEN Rejected("Missing YAML frontmatter")
                 ELSE LET parts == SplitDelim(content, 2)
                      IN  IF Len(parts) < 3 THEN Rejected("Incomplete YAML frontmatter")
                          ELSE LET frontmatter_str == StripText(parts[2])
                                   markdown_content == StripText(parts[3])
                                   frontmatter_data == safe_load(frontmatter_str)
                                   skill_dir == basename(dirname(skill_path))
                               IN  IF frontmatter_data.kind = "YAMLError"
                                   THEN Rejected("Invalid YAML")
                                   ELSE IF frontmatter_data.kind # "mapping"
                                   THEN Rejected("Error parsing skill")
                                   ELSE IF SkillFrontmatter_raises(frontmatter_data.lines)
                                   THEN Rejected("Invalid frontmatter")
                                   ELSE IF Lookup(frontmatter_data.lines, "name") # skill_dir
                                   THEN Rejected("Name mismatch")
                                   ELSE [skill |-> Some(
                                            [name |-> Lookup(frontmatter_data.lines, "name"),
                                             full_path |-> dirname(skill_path),
                                             tool_name |-> generate_tool_name(skill_path, base_dir),
                                             description |->
                                                Lookup(frontmatter_data.lines, "description"),
                                             content |-> markdown_content,
                                             path |-> skill_path,
                                             location |-> IF StartsWith(skill_path, cwd)
                                                          THEN "project" ELSE "global"]),
                                         printed |-> "ok"]

\* parse_skill(skill_path, base_dir, cwd): Optional[Skill]
parse_skill(d, skill_path, base_dir, cwd) == parse_outcome(d, skill_path, base_dir, cwd).skill

-----------------------------------------------------------------------------
(* Discovery Engine *)

\* a faulty variant: the first manifest that fails ends the scan of its root
RECURSIVE ParseAllStopAtFailure(_, _, _, _)
ParseAllStopAtFailure(d, found, base_path, cwd) ==
    IF found = <<>> THEN <<>>
    ELSE LET skill == parse_skill(d, Head(found), base_path, cwd)
         IN  IF skill = None THEN <<>>
             ELSE skill \o ParseAllStopAtFailure(d, Tail(found), base_path, cwd)

\* the loop over the manifests glob found under one root
RECURSIVE ParseAll(_, _, _, _)
ParseAll(d, found, base_path, cwd) ==
    IF found = <<>> THEN <<>>
    ELSE parse_skill(d, Head(found), base_path, cwd)
            \o ParseAll(d, Tail(found), base_path, cwd)

\* the body of the loop over base_paths: the skills one root contributes
scan_root(d, base_path, cwd) ==
    IF ~exists(d, base_path) THEN <<>>
    ELSE IF scan_raises(d, base_path) THEN <<>>
    ELSE ParseAll(d, glob(d, base_path), base_path, cwd)

RECURSIVE ScanRoots(_, _, _)
ScanRoots(d, base_paths, cwd) ==
    IF base_paths = <<>> THEN <<>>
    ELSE scan_root(d, Head(base_paths), cwd) \o ScanRoots(d, Tail(base_paths), cwd)

\* the loop of the duplicate pass: the tool names met a second or later time
RECURSIVE Duplicates(_, _)
Duplicates(skills, seen) ==
    IF skills = <<>> THEN <<>>
    ELSE LET tn == Head(skills).tool_name
         IN  (IF tn \in seen THEN <<tn>> ELSE <<>>)
                \o Duplicates(Tail(skills), seen \cup {tn})

\* a faulty variant: the pass drops the skills whose tool name was met before
RECURSIVE DropDuplicates(_, _)
DropDuplicates(skills, seen) ==
    IF skills = <<>> THEN <<>>
    ELSE LET tn == Head(skills).tool_name
         IN  (IF tn \in seen THEN <<>> ELSE <<Head(skills)>>)
                \o DropDuplicates(Tail(skills), seen \cup {tn})

duplicate_pass_dedup(skills) ==
    LET duplicates == Duplicates(skills, {})
    IN  [skills |-> DropDuplicates(skills, {}),
         warnings |-> IF duplicates # <<>> THEN <<duplicates>> ELSE <<>>]

\* the duplicate pass: the list it leaves and the warnings it prints
duplicate_pass(skills) ==
    LET duplicates == Duplicates(skills, {})
    IN  [skills |-> skills,
         warnings |-> IF duplicates # <<>> THEN <<duplicates>> ELSE <<>>]

\* discover_skills(base_paths): the list returned and the warnings printed
discover_skills(d, base_paths) ==
    LET cwd == IF base_paths # <<>> THEN base_paths[1] ELSE <<>>
    IN  duplicate_pass(ScanRoots(d, base_paths, cwd))

-----------------------------------------------------------------------------
(* Registry *)

\* initialize_skills(): what it stores in _skills_cache and returns
initialize_skills(env, d) == discover_skills(d, resolve_roots(env).all_paths)

\* a faulty variant: an empty discovery result is stored as None
store_or_none(found) == IF found = <<>> THEN None ELSE Some(found)

\* _skills_cache = await discover_skills(all_paths)
store(found) == Some(found)

Raise(op, args) == [op |-> op, args |-> args, kind |-> "RuntimeError", value |-> <<>>]

Return(op, args, value) == [op |-> op, args |-> args, kind |-> "return", value |-> value]

\* a faulty variant: an uninitialized cache reads as an empty list
get_skills_lenient(c) ==
    IF c = None THEN Return("get_skills", <<>>, <<>>) ELSE Return("get_skills", <<>>, c[1])

\* get_skills()
get_skills(c) ==
    IF c = None THEN Raise("get_skills", <<>>) ELSE Return("get_skills", <<>>, c[1])

\* pieces of the strings skills() builds: fixed text, an interpolated string,
\* an interpolated manifest body
Lit(text) == [lit |-> text, str |-> <<>>, body |-> <<>>]

Str(chars) == [lit |-> "", str |-> chars, body |-> <<>>]

Body(content) == [lit |-> "", str |-> <<>>, body |-> content]

\* a faulty variant: the last skill of that name wins
last_match(skills_list, command) ==
    IF \E i \in 1..Len(skills_list) : skills_list[i].name = command
    THEN Some(skills_list[CHOOSE i \in 1..Len(skills_list) :
                /\ skills_list[i].name = command
                /\ \A j \in (i + 1)..Len(skills_list) : skills_list[j].name # command])
    ELSE None

\* next((s for s in skills_list if s.name == command), None)
first_match(skills_list, command) ==
    IF \E i \in 1..Len(skills_list) : skills_list[i].name = command
    THEN Some(skills_list[CHOOSE i \in 1..Len(skills_list) :
                /\ skills_list[i].name = command
                /\ \A j \in 1..(i - 1) : skills_list[j].name # command])
    ELSE None

not_found_message(skills_list, command) ==
    LET available_names == [i \in 1..Len(skills_list) |-> skills_list[i].name]
    IN  <<Lit("Skill \""), Str(command), Lit("\" not found. Available skills: "),
          Str(JoinWith(available_names, <<",", " ">>))>>

\* a faulty variant: the block interpolates an empty body
rendered_block_no_content(skill, command) ==
    <<Lit("<command-message>The \""), Str(command),
      Lit("\" skill is running</command-message>\n<command-name>"), Str(command),
      Lit("</command-name>\n\n# "), Str(command),
      Lit(" Skill information\n\nBase directory for this skill: "), Str(skill.full_path),
      Lit("\n\nSkill Content:\n\n"), Body(<<>>)>>

rendered_block(skill, command) ==
    <<Lit("<command-message>The \""), Str(command),
      Lit("\" skill is running</command-message>\n<command-name>"), Str(command),
      Lit("</command-name>\n\n# "), Str(command),
      Lit(" Skill information\n\nBase directory for this skill: "), Str(skill.full_path),
      Lit("\n\nSkill Content:\n\n"), Body(skill.content)>>

\* skills(command, ctx)
skills(c, command) ==
    LET got == get_skills(c)
    IN  IF got.kind = "RuntimeError" THEN Raise("skills", <<command>>)
        ELSE LET skills_list == got.value
                 skill == first_match(skills_list, command)
             IN  IF skill = None
                 THEN Return("skills", <<command>>, not_found_message(skills_list, command))
                 ELSE Return("skills", <<command>>, rendered_block(skill[1], command))

-----------------------------------------------------------------------------
(* Inputs *)

\* all strings over alphabet of length at most n
Strings(alphabet, n) == UNION {[1..k -> alphabet] : k \in 0..n}

Optional(S) == {None} \cup {Some(v) : v \in S}

PathChars == {"~", "/", "a", ",", " "}

PathEnvirons ==
    [GLOBAL_SKILLS_PATH : Optional(Strings(PathChars, MaxEnvLen)),
     PROJECT_SKILLS_PATH : Optional(Strings(PathChars, MaxEnvLen - 1))]

ChainComponents == {<<"a">>, <<"b">>, <<"a", "b">>, <<"a", "-", "b">>, <<"a", "_", "b">>}

Chains == Strings(ChainComponents, MaxChain)

ChainRoot == <<"/", "r">>

NoCall == [op |-> "none", args |-> <<>>, kind |-> "none", value |-> <<>>]

EmptyDisk == [files |-> <<>>, broken |-> {}]

-----------------------------------------------------------------------------
(* The Path Resolver alone: one process resolves its two root lists *)

InitPaths ==
    /\ environ \in PathEnvirons
    /\ disk = EmptyDisk
    /\ cache = None
    /\ result = NoCall
    /\ warnings = <<>>
    /\ inits = 0
    /\ paths = None
    /\ chains = <<>>
    /\ tool_names = None

ResolveRoots ==
    /\ paths = None
    /\ paths' = Some(resolve_roots(environ))
    /\ UNCHANGED <<environ, disk, cache, result, warnings, inits, chains, tool_names>>

NextPaths == ResolveRoots

SpecPaths == InitPaths /\ [][NextPaths]_vars

-----------------------------------------------------------------------------
(* The Identifier Generator alone: two manifests below one root *)

InitToolName ==
    /\ environ = [GLOBAL_SKILLS_PATH |-> None, PROJECT_SKILLS_PATH |-> None]
    /\ disk = EmptyDisk
    /\ cache = None
    /\ result = NoCall
    /\ warnings = <<>>
    /\ inits = 0
    /\ paths = None
    /\ chains \in Chains \X Chains
    /\ tool_names = None

GenerateToolNames ==
    /\ tool_names = None
    /\ tool_names' = Some(
          [i \in 1..2 |-> generate_tool_name(GlobPath(ChainRoot, chains[i]), ChainRoot)])
    /\ UNCHANGED <<environ, disk, cache, result, warnings, inits, paths, chains>>

NextToolName == GenerateToolNames

SpecToolName == InitToolName /\ [][NextToolName]_vars

-----------------------------------------------------------------------------
(* Manifests and disks *)

NameA == <<"a">>

NameB == <<"b">>

\* a description of n characters
Description(n) == [i \in 1..n |-> "d"]

\* a well-formed manifest; its body holds a "---" of its own
Manifest(name, description) ==
    <<Delim, Blank, Line("name", name), Line("description", description), Blank,
      Delim, Blank, Prose, Delim, Prose, Blank>>

GoodA == Manifest(NameA, Description(MinDescription))

GoodB == Manifest(NameB, Description(MinDescription))

\* one manifest for each way parse_skill rejects a file it could read
BadTexts ==
    {<<Prose, Delim, Line("name", NameA), Line("description", Description(MinDescription)),
       Delim, Prose>>,                                                 \* no opening "---"
     <<Delim, Line("name", NameA), Line("description", Description(MinDescription)),
       Prose>>,                                                        \* no closing "---"
     <<Delim, Line("name", NameA), Unscannable, Delim, Prose>>,        \* malformed YAML
     <<Delim, Prose, Delim, Prose>>,                                   \* YAML, but no mapping
     <<Delim, Line("name", NameA), Line("description", Description(MinDescription - 1)),
       Delim, Prose>>,                                                 \* schema violation
     GoodB}                                                            \* name is not the directory's

DirGA == << <<"g">>, <<"a">> >>

DirPA == << <<"p">>, <<"a">> >>

DirGBA == << <<"g">>, <<"b">>, <<"a">> >>

DirGB == << <<"g">>, <<"b">> >>

RootG == <<"/", "g">>

RootP == <<"/", "p">>

File(dir, text) == [dir |-> dir, text |-> text, readable |-> TRUE]

Unreadable(dir) == [dir |-> dir, text |-> <<>>, readable |-> FALSE]

\* a directory holds one SKILL.md
DistinctDirs(files) == \A i, j \in 1..Len(files) : i # j => files[i].dir # files[j].dir

FileLists(candidates, n) == {files \in Strings(candidates, n) : DistinctDirs(files)}

StartupFiles ==
    {File(dir, text) : dir \in {DirGA, DirPA, DirGBA}, text \in {GoodA} \cup BadTexts}
        \cup {Unreadable(dir) : dir \in {DirGA, DirPA, DirGBA}}

StartupDisks ==
    [files : FileLists(StartupFiles, MaxFiles), broken : {{}, {Components(RootG)}}]

Env(global, project) == [GLOBAL_SKILLS_PATH |-> global, PROJECT_SKILLS_PATH |-> project]

StartupEnvirons ==
    {Env(Some(RootG), Some(RootP)),
     Env(Some(RootG), Some(<<>>)),
     Env(Some(<<>>), Some(RootP)),
     Env(Some(RootG \o <<",">> \o RootG), Some(RootP)),
     Env(Some(RootG), Some(RootG \o <<"/", "b">>))}

RegistryFiles ==
    {File(DirGA, GoodA), File(DirPA, GoodA), File(DirGB, GoodB), File(DirGA, GoodB)}

RegistryDisks == [files : FileLists(RegistryFiles, MaxFiles), broken : {{}}]

RegistryEnvirons == {Env(Some(RootG), Some(RootP)), Env(Some(RootP), Some(RootG))}

Commands == {NameA, NameB, <<"a", "b">>}

-----------------------------------------------------------------------------
(* Startup: main_async runs initialize_skills once, on the environment and *)
(* the disk it finds                                                       *)

InitStartup ==
    /\ environ \in StartupEnvirons
    /\ disk \in StartupDisks
    /\ cache = None
    /\ result = NoCall
    /\ warnings = <<>>
    /\ inits = 0
    /\ paths = None
    /\ chains = <<>>
    /\ tool_names = None

main_async ==
    /\ cache = None
    /\ LET found == initialize_skills(environ, disk)
       IN  /\ cache' = store(found.skills)
           /\ warnings' = found.warnings
           /\ result' = Return("initialize_skills", <<>>, found.skills)
    /\ paths' = Some(resolve_roots(environ))
    /\ inits' = inits + 1
    /\ UNCHANGED <<environ, disk, chains, tool_names>>

NextStartup == main_async

SpecStartup == InitStartup /\ [][NextStartup]_vars

-----------------------------------------------------------------------------
(* The registry: the exposed operations, called in any order.  A call of   *)
(* initialize_skills reads the environment and the disk as they are then.  *)

Init ==
    /\ environ \in RegistryEnvirons
    /\ disk \in RegistryDisks
    /\ cache = None
    /\ result = NoCall
    /\ warnings = <<>>
    /\ inits = 0
    /\ paths = None
    /\ chains = <<>>
    /\ tool_names = None

InitializeSkillsCall ==
    /\ inits < MaxInits
    /\ \E env \in RegistryEnvirons, d \in RegistryDisks :
          LET found == initialize_skills(env, d)
          IN  /\ environ' = env
              /\ disk' = d
              /\ cache' = store(found.skills)
              /\ warnings' = found.warnings
              /\ result' = Return("initialize_skills", <<>>, found.skills)
              /\ paths' = Some(resolve_roots(env))
    /\ inits' = inits + 1
    /\ UNCHANGED <<chains, tool_names>>

GetSkillsCall ==
    /\ result' = get_skills(cache)
    /\ UNCHANGED <<environ, disk, cache, warnings, inits, paths, chains, tool_names>>

SkillsCall ==
    /\ \E command \in Commands : result' = skills(cache, command)
    /\ UNCHANGED <<environ, disk, cache, warnings, inits, paths, chains, tool_names>>

Next == InitializeSkillsCall \/ GetSkillsCall \/ SkillsCall

Spec == Init /\ [][Next]_vars

-----------------------------------------------------------------------------
(* The Manifest Parser alone: one SKILL.md, in a directory right below the *)
(* root /g, is handed to parse_skill                                       *)

ParseNames ==
    {<<"a">>, <<"a", "-", "1">>, <<"1", "-", "2">>, <<"A">>, <<"a", "_", "b">>, <<>>}

ParseDirs == {<<"a">>, <<"a", "-", "1">>, <<"1", "-", "2">>, <<"A">>}

FrontmatterTokens ==
    {Line("name", name) : name \in ParseNames}
        \cup {Line("description", Description(n)) : n \in {MinDescription - 1, MinDescription}}
        \cup {Line("allowed_tools", <<"x">>), Unscannable, Prose, Blank}

\* what stands before the opening "---", whether the front-matter is closed,
\* and what follows it
ParseTexts ==
    {lead \o <<Delim>> \o frontmatter \o closing \o body :
        lead \in {<<>>, <<Prose>>},
        frontmatter \in Strings(FrontmatterTokens, MaxLines),
        closing \in {<<>>, <<Delim>>},
        body \in {<<>>, <<Blank, Prose, Blank>>}}

ParseFiles ==
    {File(<< <<"g">>, leaf >>, text) : leaf \in ParseDirs, text \in ParseTexts}
        \cup {Unreadable(<< <<"g">>, leaf >>) : leaf \in ParseDirs}

InitParse ==
    /\ environ = Env(Some(RootG), Some(<<>>))
    /\ disk \in [files : {<<f>> : f \in ParseFiles}, broken : {{}}]
    /\ cache = None
    /\ result = NoCall
    /\ warnings = <<>>
    /\ inits = 0
    /\ paths = None
    /\ chains = <<>>
    /\ tool_names = None

\* skill = await parse_skill(skill_path, base_path, cwd), for the one path glob finds
ParseManifest ==
    /\ result = NoCall
    /\ LET skill_path == glob(disk, RootG)[1]
       IN  result' = Return("parse_skill", <<skill_path>>,
                            parse_skill(disk, skill_path, RootG, RootG))
    /\ UNCHANGED <<environ, disk, cache, warnings, inits, paths, chains, tool_names>>

NextParse == ParseManifest

SpecParse == InitParse /\ [][NextParse]_vars

-----------------------------------------------------------------------------
(* Properties of the registry, checked under Spec *)

Lookups == {"get_skills", "skills"}

\* the index of the first stored skill named command, 0 when there is none
FirstNamed(skills_list, command) ==
    IF \E i \in 1..Len(skills_list) : skills_list[i].name = command
    THEN CHOOSE i \in 1..Len(skills_list) :
            /\ skills_list[i].name = command
            /\ \A j \in 1..(i - 1) : skills_list[j].name # command
    ELSE 0

\* a lookup by name was answered from an initialized registry
Answered == cache # None /\ result.op = "skills"

\* C1: while the cache is still None, every lookup (get_skills, and skills for
\* every command) fails with the RuntimeError; none returns a list or a message.
C1_LookupBeforeInitRaises ==
    cache = None /\ result.op \in Lookups => result.kind = "RuntimeError"

C1_Witness ==
    /\ cache = None
    /\ result.op = "skills"
    /\ result.args = <<NameA>>
    /\ result.kind = "RuntimeError"

\* C2, as claimed: once initialize_skills has completed, no exposed operation
\* changes the stored list.
C2_StoredListNeverChanges == [][cache # None => cache' = cache]_vars

\* C2, amended: an initialized registry never becomes uninitialized again, and
\* the stored list changes only in a further call of initialize_skills, which
\* replaces it by the result of a fresh discovery; lookups leave it alone.
C2_OnlyInitializeReplaces ==
    [][cache # None =>
         /\ cache' # None
         /\ cache' # cache =>
               /\ result'.op = "initialize_skills"
               /\ inits' = inits + 1
               /\ cache' = Some(initialize_skills(environ', disk').skills)]_vars

C2_Witness ==
    /\ inits = 2
    /\ cache # None
    /\ cache[1] # <<>>
    /\ result.op = "skills"
    /\ result.kind = "return"

\* C3: after initialization a lookup never raises; it answers with the first
\* stored skill whose name is exactly the command (of the configured roots that
\* hold a skill of that name, the earliest one, global roots before project
\* roots), and when no stored skill has that name with a not-found message
\* that lists the name of every stored skill.
C3_FirstExactMatchOrNotFound ==
    Answered =>
        LET command == result.args[1]
            stored == cache[1]
            roots == paths[1].global_paths \o paths[1].project_paths
            holds(r) == \E k \in 1..Len(stored) :
                            stored[k].name = command /\ StartsWith(stored[k].path, roots[r])
            i == FirstNamed(stored, command)
        IN  /\ result.kind = "return"
            /\ i # 0 =>
                  /\ result.value[8] = Str(stored[i].full_path)
                  /\ result.value[10] = Body(stored[i].content)
                  /\ \E r \in 1..Len(roots) :
                        /\ holds(r)
                        /\ \A q \in 1..(r - 1) : ~holds(q)
                        /\ StartsWith(stored[i].path, roots[r])
            /\ i = 0 =>
                  /\ result.value[1] = Lit("Skill \"")
                  /\ result.value[2] = Str(command)
                  /\ result.value[3] = Lit("\" not found. Available skills: ")
                  /\ Split(Remove(result.value[4].str, " "), ",") =
                        IF stored = <<>> THEN << <<>> >>
                        ELSE [k \in 1..Len(stored) |-> stored[k].name]

C3_Witness ==
    /\ Answered
    /\ result.kind = "return"
    /\ \E i, j \in 1..Len(cache[1]) :
          /\ i < j
          /\ cache[1][i].name = result.args[1]
          /\ cache[1][j].name = result.args[1]
          /\ cache[1][i].full_path # cache[1][j].full_path

\* the manifest on the disk that a stored skill was parsed from
ManifestOf(skill) ==
    disk.files[CHOOSE k \in 1..Len(disk.files) :
                    <<"/">> \o JoinWith(disk.files[k].dir, <<"/">>) = skill.full_path]

\* a manifest's text after its second "---", without the whitespace around it
BodyAfterFrontmatter(text) ==
    LET closing == CHOOSE k \in 2..Len(text) :
                       text[k] = Delim /\ \A j \in 2..(k - 1) : text[j] # Delim
    IN  StripText(SubSeq(text, closing + 1, Len(text)))

Contains(block, piece) == \E k \in 1..Len(block) : block[k] = piece

Header(command) ==
    <<Lit("<command-message>The \""), Str(command),
      Lit("\" skill is running</command-message>\n<command-name>"), Str(command),
      Lit("</command-name>\n\n# "), Str(command), Lit(" Skill information\n\nBase directory for this skill: ")>>

\* a lookup found a stored skill
Found == Answered /\ FirstNamed(cache[1], result.args[1]) # 0

\* C4, as claimed: the block of a successful lookup holds the fixed header, the
\* skill's tool identifier, its base directory and its body.
C4_BlockHoldsToolName ==
    Found =>
        LET skill == cache[1][FirstNamed(cache[1], result.args[1])]
        IN  /\ SubSeq(result.value, 1, 7) = Header(result.args[1])
            /\ Contains(result.value, Str(skill.tool_name))
            /\ Contains(result.value, Str(skill.full_path))
            /\ Contains(result.value, Body(BodyAfterFrontmatter(ManifestOf(skill).text)))

\* C4, amended: the block of a successful lookup holds the fixed header with
\* the skill's name (the command) where an identifier is shown, the skill's
\* base directory (the manifest's directory) and its body verbatim: the
\* manifest's text after the front-matter, whitespace trimmed.  The tool
\* identifier is not in the block.
C4_BlockHoldsNameDirectoryBody ==
    Found =>
        LET skill == cache[1][FirstNamed(cache[1], result.args[1])]
        IN  /\ Len(result.value) = 10
            /\ SubSeq(result.value, 1, 7) = Header(skill.name)
            /\ result.value[8] = Str(skill.full_path)
            /\ result.value[9] = Lit("\n\nSkill Content:\n\n")
            /\ result.value[10] = Body(BodyAfterFrontmatter(ManifestOf(skill).text))
            /\ ~Contains(result.value, Str(skill.tool_name))

C4_Witness ==
    /\ Found
    /\ result.kind = "return"
    /\ result.value[10] = Body(<<Prose, Delim, Prose>>)

-----------------------------------------------------------------------------
(* Properties of the Path Resolver, checked under SpecPaths *)

\* the entries of a configuration string that are not blank, stripped, in order
Entries(paths_str) ==
    LET stripped == [k \in 1..Len(Split(paths_str, ",")) |-> Strip(Split(paths_str, ",")[k])]
    IN  SelectSeq(stripped, LAMBDA e : e # <<>>)

\* the string a variable stands for: its value, the default when it is absent
Configured(value, default) == IF value = None THEN default ELSE value[1]

IsSuffix(a, b) == Len(a) <= Len(b) /\ SubSeq(b, Len(b) - Len(a) + 1, Len(b)) = a

NoPathTwice(all_paths) ==
    \A i, j \in 1..Len(all_paths) : i # j => all_paths[i] # all_paths[j]

\* C5, as claimed: the roots handed to discovery are absolute, in input order,
\* and no path occurs twice.
C5_RootsAbsoluteAndDuplicateFree ==
    paths # None =>
        /\ \A i \in 1..Len(paths[1].all_paths) : isabs(paths[1].all_paths[i])
        /\ NoPathTwice(paths[1].all_paths)

\* C5, amended: the roots handed to discovery are absolute and keep the input
\* order, global entries before project entries, one root for every entry that
\* is not blank; nothing is de-duplicated, so a directory named twice, or in
\* both lists, is listed (and scanned) twice.
C5_RootsAbsoluteInInputOrder ==
    paths # None =>
        LET all_paths == paths[1].all_paths
            entries == Entries(Configured(environ.GLOBAL_SKILLS_PATH, DefaultGlobal))
                          \o Entries(Configured(environ.PROJECT_SKILLS_PATH, DefaultProject))
        IN  /\ Len(all_paths) = Len(entries)
            /\ \A i \in 1..Len(all_paths) :
                  /\ isabs(all_paths[i])
                  /\ entries[i][1] # "~" => IsSuffix(entries[i], all_paths[i])
                  /\ isabs(entries[i]) => all_paths[i] = entries[i]

C5_Witness ==
    /\ paths # None
    /\ Len(paths[1].global_paths) = 2
    /\ paths[1].global_paths[1] = paths[1].global_paths[2]
    /\ paths[1].project_paths = <<paths[1].global_paths[1]>>
    /\ Len(paths[1].all_paths) = 3

ResolvedDefaultGlobal == <<"/", "h", "/", ".", "s", "k", "i", "l", "l", "s", "/">>

ResolvedDefaultProject == <<"/", "w", "/", ".", "s", "k", "i", "l", "l", "s", "/">>

\* C6, as claimed: a variable that is absent and a variable that is set to the
\* empty string both give the resolved default path.
C6_EmptyFallsBackToDefault ==
    paths # None =>
        /\ environ.GLOBAL_SKILLS_PATH \in {None, Some(<<>>)}
              => paths[1].global_paths = <<ResolvedDefaultGlobal>>
        /\ environ.PROJECT_SKILLS_PATH \in {None, Some(<<>>)}
              => paths[1].project_paths = <<ResolvedDefaultProject>>

\* C6, amended: a variable that is absent gives the resolved default path; a
\* variable that is set to the empty string gives the empty list.
C6_AbsentDefaultEmptyNothing ==
    paths # None =>
        /\ environ.GLOBAL_SKILLS_PATH = None => paths[1].global_paths = <<ResolvedDefaultGlobal>>
        /\ environ.PROJECT_SKILLS_PATH = None
              => paths[1].project_paths = <<ResolvedDefaultProject>>
        /\ environ.GLOBAL_SKILLS_PATH = Some(<<>>) => paths[1].global_paths = <<>>
        /\ environ.PROJECT_SKILLS_PATH = Some(<<>>) => paths[1].project_paths = <<>>

C6_Witness ==
    /\ paths # None
    /\ environ.GLOBAL_SKILLS_PATH = Some(<<>>)
    /\ environ.PROJECT_SKILLS_PATH = None
    /\ paths[1].all_paths = <<ResolvedDefaultProject>>

-----------------------------------------------------------------------------
(* Properties of the Identifier Generator, checked under SpecToolName *)

\* a chain read with every hyphen, underscore and directory boundary as one
\* separator
Flat(chain) ==
    IF chain = <<>> THEN <<>>
    ELSE Split(Replace(Replace(JoinWith(chain, <<"/">>), "-", "/"), "_", "/"), "/")

Plain(chain) ==
    \A i \in 1..Len(chain) : \A k \in 1..Len(chain[i]) : chain[i][k] \notin {"-", "_"}

\* C8, as claimed: two chains of directory components that differ get
\* different identifiers.
C8_DifferentChainsDifferentNames ==
    tool_names # None /\ chains[1] # chains[2] => tool_names[1][1] # tool_names[1][2]

\* C8, amended: two chains get the same identifier exactly when they are equal
\* once every hyphen, underscore and directory boundary is read as the same
\* separator; so chains that differ get different identifiers when their
\* components hold no hyphen and no underscore, and a-b, a_b and a/b share one.
C8_NamesDifferUpToSeparators ==
    tool_names # None =>
        /\ (tool_names[1][1] = tool_names[1][2]) <=> (Flat(chains[1]) = Flat(chains[2]))
        /\ Plain(chains[1]) /\ Plain(chains[2]) /\ chains[1] # chains[2]
              => tool_names[1][1] # tool_names[1][2]

C8_Witness ==
    /\ tool_names # None
    /\ chains = << << <<"a">>, <<"b">> >>, << <<"a", "b">> >> >>
    /\ tool_names[1][1] = SkillsPrefix \o <<"a", "_", "b">>
    /\ tool_names[1][2] = SkillsPrefix \o <<"a", "b">>

-----------------------------------------------------------------------------
(* Properties of discovery, checked under SpecStartup *)

Started == inits = 1

UnderSome(path, roots) == \E i \in 1..Len(roots) : StartsWith(path, roots[i])

\* C7: a skill discovered under the first project path (and under no global
\* root) has location project, a skill discovered under a global root (and not
\* under the first project path) has location global, and with no project
\* paths every skill has location global.
C7_LocationFollowsProjectBoundary ==
    Started =>
        \A k \in 1..Len(cache[1]) :
            LET skill == cache[1][k]
                global_paths == paths[1].global_paths
                project_paths == paths[1].project_paths
                under_project == project_paths # <<>> /\ StartsWith(skill.path, project_paths[1])
                under_global == UnderSome(skill.path, global_paths)
            IN  /\ project_paths = <<>> => skill.location = "global"
                /\ under_project /\ ~under_global => skill.location = "project"
                /\ under_global /\ ~under_project => skill.location = "global"

\* the well-formed name of a manifest: not empty, lowercase letters, digits and
\* hyphens only, with a letter and with a character that is no hyphen
WellFormedName(name) ==
    /\ \A i \in 1..Len(name) : name[i] \in Lower \cup Digit \cup {"-"}
    /\ \E i \in 1..Len(name) : name[i] \in Lower

\* the front-matter lines of a manifest that opens with "---" and closes it
FrontmatterOf(text) ==
    LET closing == CHOOSE k \in 2..Len(text) :
                       text[k] = Delim /\ \A j \in 2..(k - 1) : text[j] # Delim
    IN  SelectSeq(SubSeq(text, 2, closing - 1), LAMBDA tok : tok # Blank)

\* a manifest that is valid: readable, front-matter between two "---", a YAML
\* mapping with a well-formed name that is the directory's and a description
\* of at least ten characters
ValidManifest(file) ==
    /\ file.readable
    /\ file.text # <<>>
    /\ file.text[1] = Delim
    /\ \E k \in 2..Len(file.text) : file.text[k] = Delim
    /\ LET lines == FrontmatterOf(file.text)
       IN  /\ lines # <<>>
           /\ \A i \in 1..Len(lines) : lines[i].t = "line"
           /\ \E i \in 1..Len(lines) : lines[i].key = "name"
           /\ \E i \in 1..Len(lines) : lines[i].key = "description"
           /\ \A i \in 1..Len(lines) : lines[i].key \notin {"allowed_tools", "metadata"}
           /\ \A i \in 1..Len(lines) :
                 (lines[i].key = "name" /\ \A j \in (i + 1)..Len(lines) : lines[j].key # "name")
                    => /\ WellFormedName(lines[i].value)
                       /\ file.dir # <<>>
                       /\ lines[i].value = file.dir[Len(file.dir)]
           /\ \A i \in 1..Len(lines) :
                 (/\ lines[i].key = "description"
                  /\ \A j \in (i + 1)..Len(lines) : lines[j].key # "description")
                    => Len(lines[i].value) >= 10

\* the directories of the valid manifests one root contributes, in walk order:
\* none when the root's walk raises
RECURSIVE ValidBelow(_, _)
ValidBelow(files, root) ==
    IF files = <<>> THEN <<>>
    ELSE (IF /\ IsPrefix(root, Head(files).dir)
             /\ root \notin disk.broken
             /\ ValidManifest(Head(files))
          THEN <<Head(files).dir>> ELSE <<>>) \o ValidBelow(Tail(files), root)

RECURSIVE ValidRootByRoot(_)
ValidRootByRoot(roots) ==
    IF roots = <<>> THEN <<>>
    ELSE ValidBelow(disk.files, Components(Head(roots))) \o ValidRootByRoot(Tail(roots))

\* C9: discovery completes whatever the roots and files are, and returns
\* exactly the valid manifests, in discovery order, root by root: a root that
\* does not exist or whose walk raises contributes nothing, a manifest that
\* fails drops only itself.
C9_DiscoveryReturnsTheValidManifests ==
    Started =>
        /\ cache # None
        /\ result = Return("initialize_skills", <<>>, cache[1])
        /\ [k \in 1..Len(cache[1]) |-> Components(cache[1][k].full_path)]
              = ValidRootByRoot(paths[1].all_paths)

C9_Witness ==
    /\ Started
    /\ Len(cache[1]) = 1
    /\ Len(disk.files) = 2
    /\ disk.broken = {}
    /\ \A k \in 1..2 : IsPrefix(<< <<"g">> >>, disk.files[k].dir)
    /\ ~ValidManifest(disk.files[1])
    /\ paths[1].all_paths = <<RootG, RootP>>

Count(seq, x) == Cardinality({k \in 1..Len(seq) : seq[k] = x})

ToolNames(skills_list) == [k \in 1..Len(skills_list) |-> skills_list[k].tool_name]

\* C10: the duplicate pass only reports.  A run prints the warning once when
\* some tool name occurs more than once among the collected skills and not at
\* all otherwise; the warning names a tool name once for each occurrence after
\* its first, so once for two manifests of the same relative directory under
\* two roots, both of which are returned; the list returned is the collected
\* list, in the same order.
C10_DuplicatePassOnlyWarns ==
    Started =>
        LET names == ToolNames(cache[1])
            repeated == \E i, j \in 1..Len(names) : i # j /\ names[i] = names[j]
        IN  /\ Len(warnings) = IF repeated THEN 1 ELSE 0
            /\ repeated =>
                  \A i \in 1..Len(names) :
                        Count(warnings[1], names[i]) = Count(names, names[i]) - 1
            /\ cache[1] = ScanRoots(disk, paths[1].all_paths,
                                    IF paths[1].all_paths = <<>> THEN <<>>
                                    ELSE paths[1].all_paths[1])

C10_Witness ==
    /\ Started
    /\ Len(cache[1]) = 2
    /\ cache[1][1].tool_name = cache[1][2].tool_name
    /\ cache[1][1].full_path = RootG \o <<"/", "a">>
    /\ cache[1][2].full_path = RootP \o <<"/", "a">>
    /\ warnings = << <<cache[1][1].tool_name>> >>

-----------------------------------------------------------------------------
(* Properties of the Manifest Parser, checked under SpecParse *)

Parsed == result.op = "parse_skill"

\* the one manifest on the disk and the name of its immediate parent directory
ParsedFile == disk.files[1]

ParentDirectory == ParsedFile.dir[Len(ParsedFile.dir)]

\* the file can be read and starts with the "---" delimiter
OpensWithDelimiter ==
    /\ ParsedFile.readable
    /\ ParsedFile.text # <<>>
    /\ ParsedFile.text[1] = Delim

\* a second "---" closes the front-matter: the text splits into three segments
ThreeSegments == \E k \in 2..Len(ParsedFile.text) : ParsedFile.text[k] = Delim

\* the front-matter parses: it is a YAML mapping that gives both required
\* fields and gives no list or mapping field a plain string
FrontmatterParses ==
    LET lines == FrontmatterOf(ParsedFile.text)
    IN  /\ lines # <<>>
        /\ \A i \in 1..Len(lines) : lines[i].t = "line"
        /\ \A key \in {"name", "description"} : \E i \in 1..Len(lines) : lines[i].key = key
        /\ \A i \in 1..Len(lines) : lines[i].key \notin {"allowed_tools", "metadata"}

\* the value the front-matter gives a key, the last one when the key repeats
Given(key) ==
    LET lines == FrontmatterOf(ParsedFile.text)
        last == CHOOSE i \in 1..Len(lines) :
                    lines[i].key = key /\ \A j \in (i + 1)..Len(lines) : lines[j].key # key
    IN  lines[last].value

\* all the conditions on a manifest but the one on its description's length
AcceptableButDescription ==
    /\ OpensWithDelimiter
    /\ ThreeSegments
    /\ FrontmatterParses
    /\ WellFormedName(Given("name"))
    /\ Given("name") = ParentDirectory

====
